---- MODULE Spec2Model ----
(***************************************************************************)
(* Model of src/src/_includes/sass-watch.js: the SCSS watcher.             *)
(*                                                                         *)
(* The module exports one function (called watch here).  It runs           *)
(* synchronously on Node's single JavaScript thread; fs.mkdir and          *)
(* fs.writeFile are asynchronous: the call only issues the operation, the  *)
(* operation itself is executed later by the I/O thread pool, in any order *)
(* relative to other issued operations, and its completion callback runs   *)
(* later still on the JavaScript thread, never while watch itself is still *)
(* running.  An exception thrown inside a completion callback or inside    *)
(* the fs.watch listener has no JavaScript caller: it is an uncaught       *)
(* exception, and since the repository installs no handler for it, Node    *)
(* terminates the process.  An exception thrown synchronously by watch     *)
(* reaches watch's caller, which is not part of this file: the caller      *)
(* either lets it end the process or catches it and the event loop goes on.*)
(***************************************************************************)
EXTENDS Integers, Sequences, FiniteSets, TLC

\* Bounds of the model.
MaxEvents == 2      \* filesystem events the environment produces

VARIABLES
  pc,          \* position of the synchronous body of watch
  alive,       \* the Node process is running
  dirExists,   \* path.dirname(cssPath) exists on disk
  dirAtStart,  \* value of dirExists when watch was invoked
  mkdirOp,     \* state of the fs.mkdir operation
  src,         \* current state of the source tree (0: does not compile)
  outExists,   \* the file cssPath exists
  out,         \* content of the file cssPath
  calls,       \* one record per call of generateCSS, in call order
  subscribed,  \* fs.watch has been called
  events,      \* change notifications delivered and not yet handled
  nEvents,     \* filesystem events produced so far
  nHandled,    \* notifications handled by the listener
  logCount,    \* "CSS file saved" lines printed
  http,        \* the development server's response to the request in hand
  nav          \* a browser following the redirect rules of netlify.toml

vars == <<pc, alive, dirExists, dirAtStart, mkdirOp, src, outExists, out,
          calls, subscribed, events, nEvents, nHandled, logCount,
          http, nav>>

\* States of the source tree: one that does not compile (0) and two that
\* compile to different texts of different lengths.
Sources == {0, 1, 2}
\* Notifications the listener may receive: any event type, any file name.
Notifications ==
  {[evType |-> "change", filename |-> "styles.scss"],
   [evType |-> "rename", filename |-> "_partial.scss"]}

\* Content of a stylesheet left behind by an earlier run.
Stale == <<0, 0, 0>>

----------------------------------------------------------------------------
\* sass.renderSync: throws on a source that does not compile, otherwise
\* returns the CSS text, which is never empty and depends on the source only.
RenderFails(s) == s = 0

\* A transform whose output is stamped: it grows with every compile made.
RenderedCSS_Stamped(s) == [i \in 1..(s + Len(calls)) |-> s]

RenderedCSS(s) == [i \in 1..s |-> s]

\* The JavaScript thread is not inside watch: callbacks may run.
LoopFree == pc \in {"returned", "threw"}

\* A generateCSS that swallows the transform error and writes what it has.
generateCSS_WritesOnFailure(origin) ==
  Append(calls,
    [origin |-> origin,
     src    |-> src,
     threw  |-> FALSE,
     css    |-> IF RenderFails(src) THEN <<>> ELSE RenderedCSS(src),
     stage  |-> "pending",
     dirAtIssue |-> dirExists])

\* generateCSS(_scssPath, _cssPath): transform synchronously, then issue the
\* asynchronous write.  When the transform throws nothing is issued.
generateCSS(origin) ==
  Append(calls,
    [origin |-> origin,
     src    |-> src,
     threw  |-> RenderFails(src),
     css    |-> IF RenderFails(src) THEN <<>> ELSE RenderedCSS(src),
     stage  |-> IF RenderFails(src) THEN "none" ELSE "pending",
     dirAtIssue |-> dirExists])

\* No request is in hand.
HttpIdle ==
  [pc |-> "idle", url |-> "", method |-> "",
   file |-> [exists |-> FALSE, content |-> ""], content |-> "",
   statusCode |-> 200, headSent |-> FALSE, statusSent |-> 0,
   body |-> <<>>, ended |-> FALSE]

\* A URL: host "" is the site itself.
SiteUrl(p) == [host |-> "", path |-> p, fragment |-> ""]

\* No navigation has begun.
NavIdle ==
  [state |-> "idle", start |-> "", url |-> SiteUrl(""),
   location |-> SiteUrl(""), hops |-> 0]

Init ==
  /\ pc = "start"
  /\ alive = TRUE
  /\ dirExists \in BOOLEAN
  /\ dirAtStart = dirExists
  /\ mkdirOp = "none"
  /\ src \in Sources
  /\ outExists \in (IF dirExists THEN BOOLEAN ELSE {FALSE})
  /\ out = IF outExists THEN Stale ELSE <<>>
  /\ calls = <<>>
  /\ subscribed = FALSE
  /\ events = <<>>
  /\ nEvents = 0
  /\ nHandled = 0
  /\ logCount = 0
  /\ http = HttpIdle
  /\ nav = NavIdle

\* A watch that asks for the directory without looking whether it exists.
EnsureDir_Always ==
  /\ alive /\ pc = "start"
  /\ mkdirOp' = "pending"
  /\ pc' = "startup"
  /\ UNCHANGED <<http, nav>>
  /\ UNCHANGED <<alive, dirExists, dirAtStart, src, outExists, out, calls,
                 subscribed, events, nEvents, nHandled, logCount>>

\* Lines 19-30: existsSync, and the mkdir call when the directory is missing.
EnsureDir ==
  /\ alive /\ pc = "start"
  /\ mkdirOp' = IF dirExists THEN "none" ELSE "pending"
  /\ pc' = "startup"
  /\ UNCHANGED <<http, nav>>
  /\ UNCHANGED <<alive, dirExists, dirAtStart, src, outExists, out, calls,
                 subscribed, events, nEvents, nHandled, logCount>>

\* The thread pool executes mkdir -p: it creates the directory or fails.
MkdirExec ==
  /\ alive /\ mkdirOp = "pending"
  /\ \/ dirExists' = TRUE /\ mkdirOp' = "ok"
     \/ dirExists' = dirExists /\ mkdirOp' = "err"
  /\ UNCHANGED <<http, nav>>
  /\ UNCHANGED <<pc, alive, dirAtStart, src, outExists, out, calls,
                 subscribed, events, nEvents, nHandled, logCount>>

\* Lines 23-29: the completion callback of mkdir.
MkdirCallback ==
  /\ alive /\ LoopFree /\ mkdirOp \in {"ok", "err"}
  /\ IF mkdirOp = "err"
       THEN /\ mkdirOp' = "thrown"
            /\ alive' = FALSE
            /\ calls' = calls
       ELSE /\ mkdirOp' = "done"
            /\ calls' = generateCSS("mkdir")
            /\ alive' = ~RenderFails(src)
  /\ UNCHANGED <<http, nav>>
  /\ UNCHANGED <<pc, dirExists, dirAtStart, src, outExists, out,
                 subscribed, events, nEvents, nHandled, logCount>>

\* Line 33: the compile on startup.
StartupCompile ==
  /\ alive /\ pc = "startup"
  /\ calls' = generateCSS("startup")
  /\ IF RenderFails(src)
       THEN pc' = "threw" /\ alive' \in BOOLEAN
       ELSE pc' = "subscribe" /\ alive' = alive
  /\ UNCHANGED <<http, nav>>
  /\ UNCHANGED <<dirExists, dirAtStart, mkdirOp, src, outExists, out,
                 subscribed, events, nEvents, nHandled, logCount>>

\* A watch that subscribes first and compiles afterwards.
Subscribe_BeforeCompile ==
  /\ alive /\ pc \in {"startup", "subscribe"}
  /\ pc = "startup" => ~subscribed
  /\ subscribed' = TRUE
  /\ pc' = IF pc = "subscribe" THEN "returned" ELSE pc
  /\ UNCHANGED <<http, nav>>
  /\ UNCHANGED <<alive, dirExists, dirAtStart, mkdirOp, src, outExists, out,
                 calls, events, nEvents, nHandled, logCount>>

\* Line 36: fs.watch on the source directory; watch returns.
Subscribe ==
  /\ alive /\ pc = "subscribe"
  /\ subscribed' = TRUE
  /\ pc' = "returned"
  /\ UNCHANGED <<http, nav>>
  /\ UNCHANGED <<alive, dirExists, dirAtStart, mkdirOp, src, outExists, out,
                 calls, events, nEvents, nHandled, logCount>>

\* The environment touches a file of the source directory; the source may
\* change.  A notification is delivered when the directory is watched.
FsEvent ==
  /\ alive /\ nEvents < MaxEvents
  /\ \E s \in Sources, n \in Notifications :
       /\ src' = s
       /\ events' = IF subscribed
                      THEN Append(events, n)
                      ELSE events
  /\ nEvents' = nEvents + 1
  /\ UNCHANGED <<http, nav>>
  /\ UNCHANGED <<pc, alive, dirExists, dirAtStart, mkdirOp, outExists, out,
                 calls, subscribed, nHandled, logCount>>

\* Some write has been issued and its callback has not run yet.
WritePending == \E i \in 1..Len(calls) : calls[i].stage \in {"pending", "ok", "err"}

\* A debounced listener: it skips the compile while a write is outstanding.
WatchCallback_Debounced ==
  /\ alive /\ LoopFree /\ subscribed /\ events # <<>>
  /\ events' = Tail(events)
  /\ nHandled' = nHandled + 1
  /\ calls' = IF WritePending THEN calls ELSE generateCSS("watch")
  /\ alive' = (WritePending \/ ~RenderFails(src))
  /\ UNCHANGED <<http, nav>>
  /\ UNCHANGED <<pc, dirExists, dirAtStart, mkdirOp, src, outExists, out,
                 subscribed, nEvents, logCount>>

\* A listener under mutual exclusion: it waits until no write is outstanding.
WatchCallback_Exclusive ==
  /\ alive /\ LoopFree /\ subscribed /\ events # <<>>
  /\ ~WritePending
  /\ events' = Tail(events)
  /\ nHandled' = nHandled + 1
  /\ calls' = generateCSS("watch")
  /\ alive' = ~RenderFails(src)
  /\ UNCHANGED <<http, nav>>
  /\ UNCHANGED <<pc, dirExists, dirAtStart, mkdirOp, src, outExists, out,
                 subscribed, nEvents, logCount>>

\* A listener fed from a stack: the newest notification is handled first.
WatchCallback_LIFO ==
  /\ alive /\ LoopFree /\ subscribed /\ events # <<>>
  /\ events' = SubSeq(events, 1, Len(events) - 1)
  /\ nHandled' = nHandled + 1
  /\ calls' = generateCSS("watch")
  /\ alive' = ~RenderFails(src)
  /\ UNCHANGED <<http, nav>>
  /\ UNCHANGED <<pc, dirExists, dirAtStart, mkdirOp, src, outExists, out,
                 subscribed, nEvents, logCount>>

\* A listener that closes the watcher once it has been called.
WatchCallback_Unsubscribes ==
  /\ alive /\ LoopFree /\ subscribed /\ events # <<>>
  /\ events' = Tail(events)
  /\ nHandled' = nHandled + 1
  /\ calls' = generateCSS("watch")
  /\ alive' = ~RenderFails(src)
  /\ subscribed' = FALSE
  /\ UNCHANGED <<http, nav>>
  /\ UNCHANGED <<pc, dirExists, dirAtStart, mkdirOp, src, outExists, out,
                 nEvents, logCount>>

\* Lines 36-40: the listener, called once per notification, in order.
WatchCallback ==
  /\ alive /\ LoopFree /\ subscribed /\ events # <<>>
  /\ events' = Tail(events)
  /\ nHandled' = nHandled + 1
  /\ calls' = generateCSS("watch")
  /\ alive' = ~RenderFails(src)
  /\ UNCHANGED <<http, nav>>
  /\ UNCHANGED <<pc, dirExists, dirAtStart, mkdirOp, src, outExists, out,
                 subscribed, nEvents, logCount>>

\* A compile that transforms lazily: the text is rendered from the source as
\* it is when the write is executed.
WriteExec_LateRender(i) ==
  /\ alive /\ calls[i].stage = "pending"
  /\ \/ /\ dirExists
        /\ outExists' = TRUE /\ out' = RenderedCSS(src)
        /\ calls' = [calls EXCEPT ![i].stage = "ok"]
     \/ /\ UNCHANGED <<outExists, out>>
        /\ calls' = [calls EXCEPT ![i].stage = "err"]
  /\ UNCHANGED <<http, nav>>
  /\ UNCHANGED <<pc, alive, dirExists, dirAtStart, mkdirOp, src, subscribed,
                 events, nEvents, nHandled, logCount>>

\* A writeFile opened for appending (flag "a"): the text is added to the file.
WriteExec_Append(i) ==
  /\ alive /\ calls[i].stage = "pending"
  /\ \/ /\ dirExists
        /\ outExists' = TRUE /\ out' = out \o calls[i].css
        /\ calls' = [calls EXCEPT ![i].stage = "ok"]
     \/ /\ UNCHANGED <<outExists, out>>
        /\ calls' = [calls EXCEPT ![i].stage = "err"]
  /\ UNCHANGED <<http, nav>>
  /\ UNCHANGED <<pc, alive, dirExists, dirAtStart, mkdirOp, src, subscribed,
                 events, nEvents, nHandled, logCount>>

\* The thread pool executes fs.writeFile (open with O_CREAT|O_TRUNC, write,
\* close): the file then holds exactly the text, or the operation fails.
\* Opening fails when the directory is missing; any step may fail otherwise
\* (permissions, disk full).
WriteExec(i) ==
  /\ alive /\ calls[i].stage = "pending"
  /\ \/ /\ dirExists
        /\ outExists' = TRUE /\ out' = calls[i].css
        /\ calls' = [calls EXCEPT ![i].stage = "ok"]
     \/ /\ UNCHANGED <<outExists, out>>
        /\ calls' = [calls EXCEPT ![i].stage = "err"]
  /\ UNCHANGED <<http, nav>>
  /\ UNCHANGED <<pc, alive, dirExists, dirAtStart, mkdirOp, src, subscribed,
                 events, nEvents, nHandled, logCount>>

\* A completion callback that prints its line before looking at the error.
WriteCallback_LogsFirst(i) ==
  /\ alive /\ LoopFree /\ calls[i].stage \in {"ok", "err"}
  /\ logCount' = logCount + 1
  /\ IF calls[i].stage = "err"
       THEN /\ calls' = [calls EXCEPT ![i].stage = "thrown"]
            /\ alive' = FALSE
       ELSE /\ calls' = [calls EXCEPT ![i].stage = "logged"]
            /\ alive' = alive
  /\ UNCHANGED <<http, nav>>
  /\ UNCHANGED <<pc, dirExists, dirAtStart, mkdirOp, src, outExists, out,
                 subscribed, events, nEvents, nHandled>>

\* Lines 10-14: the completion callback of writeFile.
WriteCallback(i) ==
  /\ alive /\ LoopFree /\ calls[i].stage \in {"ok", "err"}
  /\ IF calls[i].stage = "err"
       THEN /\ calls' = [calls EXCEPT ![i].stage = "thrown"]
            /\ alive' = FALSE
            /\ logCount' = logCount
       ELSE /\ calls' = [calls EXCEPT ![i].stage = "logged"]
            /\ alive' = alive
            /\ logCount' = logCount + 1
  /\ UNCHANGED <<http, nav>>
  /\ UNCHANGED <<pc, dirExists, dirAtStart, mkdirOp, src, outExists, out,
                 subscribed, events, nEvents, nHandled>>

Next ==
  \/ EnsureDir
  \/ MkdirExec
  \/ MkdirCallback
  \/ StartupCompile
  \/ Subscribe
  \/ FsEvent
  \/ WatchCallback
  \/ \E i \in 1..Len(calls) : WriteExec(i)
  \/ \E i \in 1..Len(calls) : WriteCallback(i)

Spec == Init /\ [][Next]_vars

\* A benign environment: the source always compiles, mkdir succeeds, and a
\* write fails only because the directory is missing when it is executed.
\* What goes wrong under it is the program's own doing.
Benign ==
  /\ src' # 0
  /\ mkdirOp' # "err"
  /\ \A i \in 1..Len(calls) :
       (calls[i].stage = "pending" /\ calls'[i].stage = "err") => ~dirExists

BenignInit == Init /\ src # 0

BenignNext ==
  \/ EnsureDir /\ Benign
  \/ MkdirExec /\ Benign
  \/ MkdirCallback /\ Benign
  \/ StartupCompile /\ Benign
  \/ Subscribe /\ Benign
  \/ FsEvent /\ Benign
  \/ WatchCallback /\ Benign
  \/ \E i \in 1..Len(calls) : WriteExec(i) /\ Benign
  \/ \E i \in 1..Len(calls) : WriteCallback(i) /\ Benign

BenignSpec == BenignInit /\ [][BenignNext]_vars

----------------------------------------------------------------------------
(***************************************************************************)
(* src/.eleventy.js: the middleware that the development server (Browser-  *)
(* Sync) calls for every request ("*").  res is a Node http.ServerResponse:*)
(* the response head, with the status code, is sent once, by writeHead or  *)
(* implicitly, with res.statusCode (200 unless changed), by the first      *)
(* write or by end.  writeHead after the head has been sent cannot change  *)
(* what was sent: depending on the Node release it throws                  *)
(* ERR_HTTP_HEADERS_SENT or only sets res.statusCode.                      *)
(***************************************************************************)
WatcherVars == <<pc, alive, dirExists, dirAtStart, mkdirOp, src, outExists,
                 out, calls, subscribed, events, nEvents, nHandled, logCount>>

\* The watcher is not part of this scenario: it is never invoked.
WatcherOff ==
  /\ pc = "start" /\ alive = TRUE
  /\ dirExists = TRUE /\ dirAtStart = TRUE /\ mkdirOp = "none"
  /\ src = 1 /\ outExists = FALSE /\ out = <<>>
  /\ calls = <<>> /\ subscribed = FALSE /\ events = <<>>
  /\ nEvents = 0 /\ nHandled = 0 /\ logCount = 0

Urls == {"/", "/no-such-page/", "/css/styles.css"}
Methods == {"GET", "HEAD", "POST"}
\* dist/404.html: not built yet, or built with one of two contents.
NotFoundFiles ==
  {[exists |-> FALSE, content |-> ""],
   [exists |-> TRUE, content |-> "<h1>Not found</h1>"],
   [exists |-> TRUE, content |-> "<h1>404</h1>"]}

\* The server receives a request and calls the middleware with a new res.
Request ==
  /\ http.pc \in {"idle", "done", "threw"}
  /\ \E u \in Urls, m \in Methods, f \in NotFoundFiles :
       http' = [HttpIdle EXCEPT !.pc = "read", !.url = u, !.method = m,
                                !.file = f]
  /\ UNCHANGED nav
  /\ UNCHANGED WatcherVars

\* Line 15: fs.readFileSync("dist/404.html"), which throws on a missing file.
ReadFile ==
  /\ http.pc = "read"
  /\ http' = IF http.file.exists
               THEN [http EXCEPT !.pc = "write", !.content = http.file.content]
               ELSE [http EXCEPT !.pc = "threw"]
  /\ UNCHANGED nav
  /\ UNCHANGED WatcherVars

\* The head is sent implicitly with the current res.statusCode.
ImplicitHead(r) ==
  IF r.headSent THEN r
  ELSE [r EXCEPT !.headSent = TRUE, !.statusSent = r.statusCode]

\* Line 17: res.write(content_404).  No body is sent in answer to HEAD.
ResWrite ==
  /\ http.pc = "write"
  /\ http' = [ImplicitHead(http) EXCEPT
                !.pc = "head",
                !.body = IF http.method = "HEAD" THEN http.body
                         ELSE Append(http.body, http.content)]
  /\ UNCHANGED nav
  /\ UNCHANGED WatcherVars

\* Line 19: res.writeHead(404).
ResWriteHead ==
  /\ http.pc = "head"
  /\ IF http.headSent
       THEN \/ http' = [http EXCEPT !.pc = "threw"]
            \/ http' = [http EXCEPT !.pc = "end", !.statusCode = 404]
       ELSE http' = [http EXCEPT !.pc = "end", !.statusCode = 404,
                                 !.headSent = TRUE, !.statusSent = 404]
  /\ UNCHANGED nav
  /\ UNCHANGED WatcherVars

\* Line 20: res.end().
ResEnd ==
  /\ http.pc = "end"
  /\ http' = [ImplicitHead(http) EXCEPT !.pc = "done", !.ended = TRUE]
  /\ UNCHANGED nav
  /\ UNCHANGED WatcherVars

ServerInit == WatcherOff /\ http = HttpIdle /\ nav = NavIdle

ServerNext ==
  \/ Request
  \/ ReadFile
  \/ ResWrite
  \/ ResWriteHead
  \/ ResEnd

ServerSpec == ServerInit /\ [][ServerNext]_vars

----------------------------------------------------------------------------
(***************************************************************************)
(* src/netlify.toml: the [[redirects]] rules, in file order.  A request to *)
(* the site whose path equals the from of a rule is answered with a        *)
(* redirect to the rule's to (the first such rule wins); the browser then  *)
(* requests that URL, without its fragment, from the host it names.        *)
(***************************************************************************)
RedirectRows ==
  <<
     [from |-> "/contact",
      to |-> [host |-> "", path |-> "/", fragment |-> "get-in-touch"]],
     [from |-> "/contact/",
      to |-> [host |-> "", path |-> "/", fragment |-> "get-in-touch"]],
     [from |-> "/colophon",
      to |-> [host |-> "", path |-> "/uses/", fragment |-> ""]],
     [from |-> "/colophon/",
      to |-> [host |-> "", path |-> "/uses/", fragment |-> ""]],
     [from |-> "/setup",
      to |-> [host |-> "", path |-> "/uses/", fragment |-> ""]],
     [from |-> "/setup/",
      to |-> [host |-> "", path |-> "/uses/", fragment |-> ""]],
     [from |-> "/conversational",
      to |-> [host |-> "web.archive.org", path |-> "/web/20140602002923/http://ra.me.uk/conversational/", fragment |-> ""]],
     [from |-> "/conversational/",
      to |-> [host |-> "web.archive.org", path |-> "/web/20140602002923/http://ra.me.uk/conversational/", fragment |-> ""]],
     [from |-> "/conversational/2014/5/19/changing-my-passwords",
      to |-> [host |-> "web.archive.org", path |-> "/web/20140602002923/http://ra.me.uk/conversational/", fragment |-> ""]],
     [from |-> "/conversational/2014/5/7/leaving-facebook-for-good",
      to |-> [host |-> "web.archive.org", path |-> "/web/20140602002923/http://ra.me.uk/conversational/", fragment |-> ""]],
     [from |-> "/conversational/2014/5/1/using-an-ipad-as-my-only-computer",
      to |-> [host |-> "web.archive.org", path |-> "/web/20140602002923/http://ra.me.uk/conversational/", fragment |-> ""]],
     [from |-> "/conversational/2014/4/23/staying-a-geek",
      to |-> [host |-> "web.archive.org", path |-> "/web/20140602002923/http://ra.me.uk/conversational/", fragment |-> ""]],
     [from |-> "/conversational/2014/4/17/the-challenges-of-a-semi-graduate",
      to |-> [host |-> "web.archive.org", path |-> "/web/20140602002923/http://ra.me.uk/conversational/", fragment |-> ""]],
     [from |-> "/2016/06/26/progression.html",
      to |-> [host |-> "web.archive.org", path |-> "/web/20180903172238/http://ruben.am/2016/06/26/progression.html", fragment |-> ""]],
     [from |-> "/2016/07/10/my-first-week-at-gds.html",
      to |-> [host |-> "web.archive.org", path |-> "/web/20180903170213/http://ruben.am/2016/07/10/my-first-week-at-gds.html", fragment |-> ""]],
     [from |-> "/2016/07/18/two-weeks-in.html",
      to |-> [host |-> "web.archive.org", path |-> "/web/20180903200721/http://ruben.am/2016/07/18/two-weeks-in.html", fragment |-> ""]],
     [from |-> "/2016/07/24/i-did-this.html",
      to |-> [host |-> "web.archive.org", path |-> "/web/20180903190106/http://ruben.am/2016/07/24/i-did-this.html", fragment |-> ""]],
     [from |-> "/2016/08/07/much-happenings.html",
      to |-> [host |-> "web.archive.org", path |-> "/web/20180903175538/http://ruben.am/2016/08/07/much-happenings.html", fragment |-> ""]],
     [from |-> "/2016/09/04/knowing-its-all-fine.html",
      to |-> [host |-> "web.archive.org", path |-> "/web/20180903202135/http://ruben.am/2016/09/04/knowing-its-all-fine.html", fragment |-> ""]],
     [from |-> "/2016/09/25/supporting-users-as-a-developer.html",
      to |-> [host |-> "web.archive.org", path |-> "/web/20180903190049/http://ruben.am/2016/09/25/supporting-users-as-a-developer.html", fragment |-> ""]],
     [from |-> "/2016/10/16/interviewing-developers-at-gds.html",
      to |-> [host |-> "web.archive.org", path |-> "/web/20180903215351/http://ruben.am/2016/10/16/interviewing-developers-at-gds.html", fragment |-> ""]],
     [from |-> "/2016/11/21/hacking-for-the-government.html",
      to |-> [host |-> "web.archive.org", path |-> "/web/20180903192732/http://ruben.am/2016/11/21/hacking-for-the-government.html", fragment |-> ""]],
     [from |-> "/2016/12/31/an-uneventful-christmas.html",
      to |-> [host |-> "web.archive.org", path |-> "/web/20180903212856/http://ruben.am/2016/12/31/an-uneventful-christmas.html", fragment |-> ""]],
     [from |-> "/2017/03/20/publishing-for-the-rest-of-the-world.html",
      to |-> [host |-> "web.archive.org", path |-> "/web/20180903171858/http://ruben.am/2017/03/20/publishing-for-the-rest-of-the-world.html", fragment |-> ""]],
     [from |-> "/2017/07/29/experimenting-with-fixed-time-and-variable-scope.html",
      to |-> [host |-> "web.archive.org", path |-> "/web/20180903194535/http://ruben.am/2017/07/29/experimenting-with-fixed-time-and-variable-scope.html", fragment |-> ""]],
     [from |-> "/2017/08/26/thoughts-on-responsible-building.html",
      to |-> [host |-> "web.archive.org", path |-> "/web/20180903202713/http://ruben.am/2017/08/26/thoughts-on-responsible-building.html", fragment |-> ""]],
     [from |-> "/2018/03/26/the-peoples-email.html",
      to |-> [host |-> "web.archive.org", path |-> "/web/20180903202904/http://ruben.am/2018/03/26/the-peoples-email.html", fragment |-> ""]]
  >>

\* The table with one rule retargeted at the from of another rule.
Redirects_Chained ==
  [RedirectRows EXCEPT ![3].to = SiteUrl("/setup")]

Redirects == RedirectRows

RuleIds == 1..Len(Redirects)
Matching(p) == {k \in RuleIds : Redirects[k].from = p}
IsSource(p) == Matching(p) # {}
FirstMatch(p) == CHOOSE k \in Matching(p) : \A m \in Matching(p) : k <= m

\* Paths a visitor may ask the site for: every from, and some pages.
SitePaths ==
  {Redirects[k].from : k \in RuleIds} \cup {"/", "/uses/", "/archive/"}

\* Redirects followed in one navigation before the browser gives up.
MaxHops == 3

Navigate ==
  /\ nav.state = "idle"
  /\ \E p \in SitePaths :
       nav' = [NavIdle EXCEPT !.state = "requested", !.start = p,
                              !.url = SiteUrl(p)]
  /\ UNCHANGED http
  /\ UNCHANGED WatcherVars

\* The host answers: the site with a redirect when a rule matches the path,
\* otherwise (and any other host) with a final response.
Respond ==
  /\ nav.state = "requested"
  /\ nav' = IF nav.url.host = "" /\ IsSource(nav.url.path)
              THEN [nav EXCEPT !.state = "redirected",
                               !.location = Redirects[FirstMatch(nav.url.path)].to]
              ELSE [nav EXCEPT !.state = "served"]
  /\ UNCHANGED http
  /\ UNCHANGED WatcherVars

\* The browser follows the redirect; the fragment is not sent.
Follow ==
  /\ nav.state = "redirected"
  /\ nav.hops < MaxHops
  /\ nav' = [nav EXCEPT !.state = "requested",
                         !.url = [nav.location EXCEPT !.fragment = ""],
                         !.hops = nav.hops + 1]
  /\ UNCHANGED http
  /\ UNCHANGED WatcherVars

NavInit == WatcherOff /\ http = HttpIdle /\ nav = NavIdle

NavNext ==
  \/ Navigate
  \/ Respond
  \/ Follow

NavSpec == NavInit /\ [][NavNext]_vars

----------------------------------------------------------------------------
TypeOK ==
  /\ pc \in {"start", "startup", "subscribe", "returned", "threw"}
  /\ mkdirOp \in {"none", "pending", "ok", "err", "done", "thrown"}
  /\ src \in Sources
  /\ nEvents \in 0..MaxEvents
  /\ Len(calls) <= MaxEvents + 2
  /\ \A i \in 1..Len(calls) :
       calls[i].stage \in {"none", "pending", "ok", "err", "logged", "thrown"}

CallIds == 1..Len(calls)
WatchCalls == {i \in CallIds : calls[i].origin = "watch"}

\* Nothing is outstanding and nothing has failed: watch has returned, every
\* filesystem event was delivered and handled, the mkdir (if any) has
\* completed and every compile has written and logged.
Quiescent ==
  /\ alive /\ pc = "returned"
  /\ events = <<>> /\ nHandled = nEvents
  /\ mkdirOp \in {"none", "done"}
  /\ \A i \in CallIds : calls[i].stage = "logged"

\* C1: when every source change was delivered as a notification and every
\* transform and write succeeded, then once no write is pending the output
\* file holds the compilation of the latest source state.
C1_OutputUpToDate ==
  Quiescent => (outExists /\ out = RenderedCSS(src))

\* C2: every notification handled by the listener, whatever its file name and
\* event type, has triggered exactly one compile call: the compile calls made
\* by the listener number exactly the notifications handled, also when
\* earlier writes were still pending.
C2_OneCompilePerNotification ==
  Cardinality(WatchCalls) = nHandled

\* Two notifications have been handled while the startup write was still
\* pending: three compile calls, all three writes outstanding.
C2_Witness ==
  /\ nHandled = 2 /\ Len(calls) = 3
  /\ \A i \in CallIds : calls[i].stage = "pending"

\* C3: watch performs exactly one compile at startup, before any notification
\* is handled, whether the output directory existed or had to be created.
C3_ExactlyOneStartupCompile ==
  (LoopFree /\ nHandled = 0) => Len(calls) = 1

\* C4: after a compile has failed (transform error or write error), the
\* watcher is still subscribed in a running process.
C4_WatcherSurvivesCompileFailure ==
  (\E i \in CallIds : calls[i].threw \/ calls[i].stage = "thrown")
    => (alive /\ subscribed)

\* C5: whenever a write to the output file is issued, its parent directory
\* already exists.
C5_DirExistsBeforeWrite ==
  \A i \in CallIds : calls[i].stage # "none" => calls[i].dirAtIssue

\* C6: if the output directory was missing when watch was invoked and its
\* creation does not fail, the directory exists once watch has run.
C6_DirExistsAfterWatch ==
  (pc = "returned" /\ ~dirAtStart /\ mkdirOp \notin {"err", "thrown"})
    => dirExists

\* C7: a compile call whose transform fails raises the failure and issues no
\* write, so it never modifies the output file.
C7_TransformFailureWritesNothing ==
  \A i \in CallIds :
    RenderFails(calls[i].src) => (calls[i].threw /\ calls[i].stage = "none")

\* A notification-triggered compile failed in its transform while an older
\* stylesheet was on disk, and the file is as it was.
C7_Witness ==
  /\ \E i \in CallIds :
       calls[i].origin = "watch" /\ RenderFails(calls[i].src) /\ calls[i].threw
  /\ outExists /\ out = Stale

\* C8: a compile call whose write fails does not return normally to its
\* caller.
C8_WriteErrorRaisedToCaller ==
  \A i \in CallIds : calls[i].stage \in {"err", "thrown"} => calls[i].threw

\* C9: when the directory creation fails, watch does not return normally and
\* no subscription is established.
C9_MkdirFailurePropagated ==
  mkdirOp \in {"err", "thrown"} => (pc # "returned" /\ ~subscribed)

\* C10: no retry: a compile starts only as the one startup compile or in
\* response to a change notification, so the compile calls never outnumber
\* the notifications handled by more than one.
C10_NoRetry ==
  Len(calls) <= 1 + nHandled

\* The write of call i has been issued and its callback has not run yet.
InFlight(i) == calls[i].stage \in {"pending", "ok", "err"}

C12_Idempotent ==
  (/\ Len(calls) >= 2
   /\ \A i \in CallIds : calls[i].src = calls[1].src
   /\ \A i \in CallIds : calls[i].stage # "pending"
   /\ \E i \in CallIds : calls[i].stage \in {"ok", "logged"})
  => (outExists /\ out = calls[1].css)

\* Two compiles of the same valid source have both written and logged, over
\* a stylesheet of an earlier run.
C12_Witness ==
  /\ Len(calls) = 2 /\ dirAtStart
  /\ calls[1].src = calls[2].src
  /\ calls[1].stage = "logged" /\ calls[2].stage = "logged"
  /\ out = calls[2].css

\* C13: a compile in flight is never cut off by a newer notification: the
\* step that handles a notification leaves the process running whenever the
\* write of an earlier compile is still to be executed, so that this compile
\* can still end by its own write completion or error.
C13_NeverAbortedByNotification ==
  [][nHandled' > nHandled =>
       \A i \in CallIds : calls[i].stage = "pending" => alive']_vars

\* C14: compilations are not mutually excluded: a notification queued in a
\* running, subscribed process is handled, and its compile started, whether
\* or not the write of an earlier compile is still pending; nothing holds the
\* listener back.
C14_NotMutuallyExcluded ==
  (alive /\ LoopFree /\ subscribed /\ events # <<>>) => ENABLED WatchCallback

\* Two writes to the output file, issued by two different compile calls, the
\* later one from the listener, are pending at the same time.
C14_Witness ==
  \E i, j \in CallIds :
    /\ i < j
    /\ calls[i].stage = "pending"
    /\ calls[j].stage = "pending" /\ calls[j].origin = "watch"

\* C15: at no time are two writes to the output file in flight at once.
C15_OneWriteInFlight ==
  Cardinality({i \in CallIds : InFlight(i)}) <= 1

\* C16: handling is single-threaded: a step handles one notification, the
\* oldest one queued, and new notifications queue up behind the waiting ones;
\* a step runs the transform of at most one compile call, on the source as it
\* is at that step, and leaves the records of all other calls untouched.
C16_SingleThreadedInOrder ==
  [][/\ nHandled' # nHandled =>
          (/\ nHandled' = nHandled + 1
           /\ events # <<>> /\ events' = Tail(events)
           /\ Len(calls') = Len(calls) + 1)
     /\ Len(events') > Len(events) =>
          (/\ Len(events') = Len(events) + 1
           /\ SubSeq(events', 1, Len(events)) = events)
     /\ Len(calls') # Len(calls) =>
          (/\ Len(calls') = Len(calls) + 1
           /\ SubSeq(calls', 1, Len(calls)) = calls
           /\ src' = src
           /\ calls'[Len(calls')].src = src)]_vars

\* One notification has been handled, its write is pending, and the next
\* notification is waiting in the queue.
C16_Witness ==
  /\ alive /\ nHandled = 1 /\ Len(events) = 1
  /\ calls[Len(calls)].origin = "watch"
  /\ calls[Len(calls)].stage = "pending"

\* C17: the subscription is never released by the program: once watch has
\* returned, the watcher is subscribed in every later state, and a step never
\* takes the subscription away.
C17_NeverUnsubscribed ==
  [](pc = "returned" => subscribed) /\ [][subscribed => subscribed']_vars

\* Every notification produced has been handled, every compile has logged,
\* and the process still runs and is still subscribed.
C17_Witness ==
  /\ alive /\ subscribed
  /\ nHandled = nEvents /\ nHandled >= 2
  /\ \A i \in CallIds : calls[i].stage = "logged"

\* C18: the output directory is created only when it is missing: when it
\* existed at the invocation of watch, no mkdir is ever issued and the
\* directory stays as it was.
C18_MkdirOnlyWhenMissing ==
  dirAtStart => (mkdirOp = "none" /\ dirExists)

\* watch has run to its end with the directory in place from the start: one
\* compile, no mkdir.
C18_Witness ==
  /\ dirAtStart /\ pc = "returned"
  /\ mkdirOp = "none" /\ Len(calls) = 1

\* C19: the startup compile is triggered before the subscription is
\* established: whenever the watcher is subscribed the first compile call
\* has been made and it is the startup compile, so every compile triggered
\* by a notification comes after it.
C19_StartupCompileFirst ==
  /\ subscribed => (Len(calls) >= 1 /\ calls[1].origin = "startup")
  /\ \A i \in WatchCalls : i > 1 /\ calls[1].origin = "startup"

\* The startup compile has written, and a compile triggered by a notification
\* follows it.
C19_Witness ==
  /\ Len(calls) >= 2
  /\ calls[1].origin = "startup" /\ calls[1].stage = "ok"
  /\ calls[2].origin = "watch"

\* C20: the completion line is printed once per compile whose write
\* succeeded, by the step that completes this compile after its write has
\* executed with success, and never for a compile whose transform or write
\* failed: the lines printed number the compiles completed with success.
C20_LogOncePerSuccessfulWrite ==
  /\ [](/\ logCount = Cardinality({i \in CallIds : calls[i].stage = "logged"})
        /\ \A i \in CallIds : calls[i].stage = "logged" => ~calls[i].threw)
  /\ [][logCount' # logCount =>
          (/\ logCount' = logCount + 1
           /\ \E i \in CallIds :
                /\ calls[i].stage = "ok" /\ calls'[i].stage = "logged"
                /\ \A j \in CallIds \ {i} : calls'[j] = calls[j])]_vars

\* One compile has printed its line, another one's write has failed and its
\* callback has thrown without printing.
C20_Witness ==
  /\ logCount = 1
  /\ \E i \in CallIds : calls[i].stage = "thrown"

\* C21: the fallback middleware answers every request it handles with status
\* 404, the status actually sent in the response head, and with the content
\* of dist/404.html as the body (no body for a HEAD request), and then ends
\* the response.
C21_FallbackAnswers404 ==
  /\ http.headSent => http.statusSent = 404
  /\ http.pc = "done" =>
       (/\ http.ended
        /\ http.method # "HEAD" => http.body = <<http.file.content>>)

\* C22: when the output directory was missing at invocation and its creation
\* has succeeded, a compile is started from the creation's callback, so a
\* write is issued while the directory exists, and the output file gets
\* written: a process that has stopped after the creation succeeded has made
\* that compile and has left an output file.
C22_CompileAfterMkdir ==
  (~alive /\ ~dirAtStart /\ mkdirOp \in {"ok", "done"})
    => (/\ \E i \in CallIds :
             /\ calls[i].origin = "mkdir"
             /\ calls[i].stage # "none" /\ calls[i].dirAtIssue
        /\ outExists)

\* C23: every write carries the transform of the source as it was when its
\* compile ran the transform: a write is issued only by a call whose
\* transform succeeded, the text it carries is the transform of the source
\* that call read and never changes afterwards, and the write stores that
\* text whatever the source has become by the time it is executed.
C23_WriteCarriesOwnTransform ==
  /\ [](\A i \in CallIds :
          calls[i].stage # "none" =>
            (/\ ~calls[i].threw /\ ~RenderFails(calls[i].src)
             /\ calls[i].css = RenderedCSS(calls[i].src)))
  /\ [][\A i \in CallIds :
          /\ calls'[i].src = calls[i].src /\ calls'[i].css = calls[i].css
          /\ (calls[i].stage = "pending" /\ calls'[i].stage = "ok")
               => out' = RenderedCSS(calls[i].src)]_vars

\* A write has stored its text after the source had changed to one that
\* compiles to another text.
C23_Witness ==
  \E i \in CallIds :
    /\ calls[i].stage = "ok"
    /\ ~RenderFails(src) /\ src # calls[i].src
    /\ out = RenderedCSS(calls[i].src) /\ out # RenderedCSS(src)

\* C24: the redirect table has no chains or loops: no rule's target is a
\* path of the site that a rule redirects, so a navigation never follows
\* more than one redirect, and a navigation that starts at the from of a rule
\* has followed exactly one when it gets its final response.
C24_RedirectsEndAfterOneHop ==
  /\ \A k \in RuleIds :
       ~(Redirects[k].to.host = "" /\ IsSource(Redirects[k].to.path))
  /\ nav.hops <= 1
  /\ (nav.state = "served" /\ IsSource(nav.start)) => nav.hops = 1

\* A navigation to a redirected path has been answered, after one redirect,
\* by a page of the site itself.
C24_Witness ==
  /\ nav.state = "served" /\ nav.hops = 1
  /\ IsSource(nav.start) /\ nav.url.host = ""

====
